---- MODULE Spec2Model ----
(***************************************************************************)
(* Model of the arabic-reader web application:                              *)
(*   - the two image-extraction route handlers (vocabulary, conversation): *)
(*     each request is served by one POST action, which records the calls  *)
(*     the handler made, the body it sent to the model API and its reply;  *)
(*   - the server-rendered pages and their authorization gates.            *)
(* Strings are sequences of one-character strings, so that trim() and      *)
(* toLowerCase() are computed rather than assumed.                         *)
(***************************************************************************)
EXTENDS Integers, Sequences, FiniteSets, TLC

VARIABLES
    served,     \* what the server has served: "none", an extraction route or a page
    req,        \* the multipart form of the extraction request
    env,        \* what the handler's collaborators answered
    effects,    \* the calls the handler made, in order
    sent,       \* the body posted to the external model API, if any
    resp,       \* the handler's JSON response
    visit,      \* the page request: session, admin flag, id parameter, catalog
    queries,    \* the catalog queries the page issued, in order
    outcome,    \* how the page render ended
    display,    \* ConversationDisplay: its React state and its refs
    speech,     \* window.speechSynthesis: voices, utterance queue, owed events
    heard,      \* what speechSynthesis was asked to speak since the last press
    flash,      \* VocabularyFlashcards: its React state
    editor      \* an admin editor: its React state and its server actions in flight

vars == <<served, req, env, effects, sent, resp, visit, queries, outcome,
          display, speech, heard, flash, editor>>

extractVars == <<req, env, effects, sent, resp>>
pageVars == <<visit, queries, outcome>>
serverVars == <<served, req, env, effects, sent, resp, visit, queries, outcome>>
clientVars == <<display, speech, heard, flash, editor>>

(***************************************************************************)
(* Bounds of the model.                                                    *)
(***************************************************************************)
MaxReply == 2       \* items in the model's reply array
MaxExisting == 1    \* entries in the request's existingWords / existingSentences

(***************************************************************************)
(* Strings.                                                                *)
(***************************************************************************)
IsSpace(c) == c = " "

\* String.prototype.toLowerCase, one character
LowerChar(c) == CASE c = "A" -> "a" [] c = "B" -> "b" [] c = "C" -> "c" [] OTHER -> c

toLowerCase(s) == [i \in 1..Len(s) |-> LowerChar(s[i])]

RECURSIVE trimStart(_)
trimStart(s) == IF s # <<>> /\ IsSpace(Head(s)) THEN trimStart(Tail(s)) ELSE s

RECURSIVE trimEnd(_)
trimEnd(s) == IF s # <<>> /\ IsSpace(s[Len(s)]) THEN trimEnd(SubSeq(s, 1, Len(s) - 1)) ELSE s

\* String.prototype.trim
trim(s) == trimEnd(trimStart(s))

\* String.prototype.startsWith
startsWith(s, p) == Len(s) >= Len(p) /\ SubSeq(s, 1, Len(p)) = p

(***************************************************************************)
(* JavaScript values a JSON field can hold: undefined (the field is        *)
(* missing), null, a string, a number.  s is the text String(v) returns.   *)
(***************************************************************************)
Undef == [t |-> "undef", s |-> <<>>]
Null == [t |-> "null", s |-> <<>>]
Str(s) == [t |-> "str", s |-> s]
Num(s) == [t |-> "num", s |-> s]

\* JavaScript truthiness of a value
Truthy(v) ==
    CASE v.t = "str" -> v.s # <<>>
      [] v.t = "num" -> v.s # <<"0">>
      [] OTHER -> FALSE

\* String(v) for a truthy v
String(v) == v.s


(***************************************************************************)
(* The reply content of the model: a sequence of tokens.  "text" is any    *)
(* run of characters that is not JSON, "open" and "close" are the square   *)
(* brackets, "item" is one JSON value that is not an array (an object with *)
(* its arabic and english fields, or null); the commas between values are  *)
(* left implicit.                                                          *)
(***************************************************************************)
NoItem == [k |-> "none", arabic |-> Undef, english |-> Undef]
Obj(a, e) == [k |-> "obj", arabic |-> a, english |-> e]
NullItem == [k |-> "null", arabic |-> Undef, english |-> Undef]
\* a nested array value: it has no arabic and no english property
ArrItem == [k |-> "arr", arabic |-> Undef, english |-> Undef]

Text == [k |-> "text", v |-> NoItem]
Open == [k |-> "open", v |-> NoItem]
Close == [k |-> "close", v |-> NoItem]
Item(v) == [k |-> "item", v |-> v]

\* content.match(/\[[\s\S]*\]/): from the first "[" to the last "]" after it
FirstOpen(content) ==
    LET at == {i \in 1..Len(content) : content[i].k = "open"}
    IN IF at = {} THEN 0 ELSE CHOOSE i \in at : \A j \in at : i <= j

LastClose(content) ==
    LET at == {i \in 1..Len(content) : content[i].k = "close"}
    IN IF at = {} THEN 0 ELSE CHOOSE i \in at : \A j \in at : j <= i

jsonMatch(content) ==
    LET i == FirstOpen(content)
        j == LastClose(content)
    IN IF i > 0 /\ j > i
       THEN [found |-> TRUE, text |-> SubSeq(content, i, j)]
       ELSE [found |-> FALSE, text |-> <<>>]

\* JSON.parse of a text that starts with "[": the elements of the array, or a
\* SyntaxError.  depth counts the brackets open at position i.
RECURSIVE ScanArray(_, _, _, _)
ScanArray(text, i, depth, acc) ==
    IF i > Len(text) THEN [ok |-> depth = 0, value |-> acc]
    ELSE LET tok == text[i] IN
         CASE tok.k = "text" -> [ok |-> FALSE, value |-> <<>>]
           [] tok.k = "open" ->
                IF i > 1 /\ depth = 0 THEN [ok |-> FALSE, value |-> <<>>]
                ELSE ScanArray(text, i + 1, depth + 1,
                               IF depth = 1 THEN Append(acc, ArrItem) ELSE acc)
           [] tok.k = "close" ->
                IF depth = 0 THEN [ok |-> FALSE, value |-> <<>>]
                ELSE ScanArray(text, i + 1, depth - 1, acc)
           [] OTHER ->
                IF depth = 0 THEN [ok |-> FALSE, value |-> <<>>]
                ELSE ScanArray(text, i + 1, depth,
                               IF depth = 1 THEN Append(acc, tok.v) ELSE acc)

\* The first half of the try block: the array the reply parses to, or a throw.
\* Without a match the whole content is parsed: it holds no complete "[...]",
\* so it is a SyntaxError or a value that fails Array.isArray.
ParseReply(content) ==
    LET m == jsonMatch(content)
    IN IF m.found THEN ScanArray(m.text, 1, 0, <<>>)
       ELSE [ok |-> FALSE, value |-> <<>>]

(***************************************************************************)
(* Filter and validate, then de-duplicate.                                 *)
(***************************************************************************)
\* the items a filter callback reads a property of: null throws a TypeError
ReadsThrow(items) == \E i \in 1..Len(items) : items[i].k = "null"

Pair(a, e) == [arabic |-> a, english |-> e]

\* .filter(pair => pair.arabic && pair.english).map(trim).filter(non-empty)
ValidatePairs(items) ==
    LET kept == SelectSeq(items, LAMBDA p : Truthy(p.arabic) /\ Truthy(p.english))
        mapped == [i \in 1..Len(kept) |->
                     Pair(trim(String(kept[i].arabic)), Str(trim(String(kept[i].english))))]
    IN SelectSeq(mapped, LAMBDA p : Len(p.arabic) > 0 /\ Len(p.english.s) > 0)

\* .filter(s => s.arabic).map(trim, english optional).filter(non-empty arabic)
ValidateSentences(items) ==
    LET kept == SelectSeq(items, LAMBDA p : Truthy(p.arabic))
        mapped == [i \in 1..Len(kept) |->
                     Pair(trim(String(kept[i].arabic)),
                          IF Truthy(kept[i].english)
                          THEN Str(trim(String(kept[i].english)))
                          ELSE Undef)]
    IN SelectSeq(mapped, LAMBDA p : Len(p.arabic) > 0)

\* normalizeWord / normalizeText
normalizeWord(text) == trim(toLowerCase(text))

\* `${normalizeWord(arabic)}|${normalizeWord(english)}`
WordKey(arabic, english) == normalizeWord(arabic) \o <<"|">> \o normalizeWord(english)

\* existing.map(...) throws a TypeError when existing is not an array, or an
\* entry is null, or a field the callback normalizes is not a string
ExistingWordsThrow(existing) ==
    \/ ~existing.isArray
    \/ \E i \in 1..Len(existing.entries) :
          existing.entries[i].arabic.t # "str" \/ existing.entries[i].english.t # "str"

ExistingSentencesThrow(existing) ==
    \/ ~existing.isArray
    \/ \E i \in 1..Len(existing.entries) : existing.entries[i].arabic.t # "str"

existingWordsSet(entries) ==
    {WordKey(entries[i].arabic.s, entries[i].english.s) : i \in 1..Len(entries)}

existingSentencesSet(entries) ==
    {normalizeWord(entries[i].arabic.s) : i \in 1..Len(entries)}

\* a comparison of the texts as they are, without normalizeWord
IsDuplicateWordExact(pair, entries) ==
    \E i \in 1..Len(entries) :
        entries[i].arabic.s = pair.arabic /\ entries[i].english.s = pair.english.s

IsDuplicateWord(pair, entries) ==
    WordKey(pair.arabic, pair.english.s) \in existingWordsSet(entries)

\* a comparison that reads the English text too, as the vocabulary handler's does
IsDuplicateSentenceByPair(sentence, entries) ==
    \E i \in 1..Len(entries) :
        WordKey(sentence.arabic, sentence.english.s)
            = WordKey(entries[i].arabic.s, entries[i].english.s)

IsDuplicateSentence(sentence, entries) ==
    normalizeWord(sentence.arabic) \in existingSentencesSet(entries)

\* the filter of the vocabulary handler: what it keeps, and what it pushes to
\* the duplicates array declared inside the try block
DedupWords(pairs, entries) ==
    [unique |-> SelectSeq(pairs, LAMBDA p : ~IsDuplicateWord(p, entries)),
     pushed |-> SelectSeq(pairs, LAMBDA p : IsDuplicateWord(p, entries))]

DedupSentences(sentences, entries) ==
    [unique |-> SelectSeq(sentences, LAMBDA p : ~IsDuplicateSentence(p, entries)),
     pushed |-> SelectSeq(sentences, LAMBDA p : IsDuplicateSentence(p, entries))]


(***************************************************************************)
(* Request fields.                                                         *)
(***************************************************************************)
\* formData.get of a text field: null when the field is absent
NoField == [t |-> "null", s |-> <<>>]

\* the existingWords / existingSentences field: absent, or a JSON text that
\* is unparsable, or parses to a value that is no array, or to an array
ExistingAbsent == [k |-> "absent", entries |-> <<>>]
ExistingUnparsable == [k |-> "unparsable", entries |-> <<>>]
ExistingNotArray == [k |-> "notArray", entries |-> <<>>]
ExistingArray(entries) == [k |-> "array", entries |-> entries]

\* let existing = []; if (json) { try { existing = JSON.parse(json) } catch {} }
ParseExisting(field) ==
    CASE field.k = "array" -> [isArray |-> TRUE, entries |-> field.entries]
      [] field.k = "notArray" -> [isArray |-> FALSE, entries |-> <<>>]
      [] OTHER -> [isArray |-> TRUE, entries |-> <<>>]

IsDigit(c) == c \in {"0", "1", "2", "3", "4", "5", "6", "7", "8", "9"}

DigitValue(c) ==
    CASE c = "0" -> 0 [] c = "1" -> 1 [] c = "2" -> 2 [] c = "3" -> 3 [] c = "4" -> 4
      [] c = "5" -> 5 [] c = "6" -> 6 [] c = "7" -> 7 [] c = "8" -> 8 [] OTHER -> 9

RECURSIVE LeadingDigits(_, _)
LeadingDigits(s, acc) ==
    IF s # <<>> /\ IsDigit(Head(s))
    THEN LeadingDigits(Tail(s), 10 * acc + DigitValue(Head(s)))
    ELSE acc

\* parseInt(s): skips leading white space, reads the leading digits, NaN if none
parseInt(s) ==
    LET t == trimStart(s)
    IN IF t # <<>> /\ IsDigit(Head(t))
       THEN [nan |-> FALSE, n |-> LeadingDigits(t, 0)]
       ELSE [nan |-> TRUE, n |-> 0]

ImagePrefix == <<"i", "m", "a", "g", "e", "/">>

(***************************************************************************)
(* Model selection and prompt choice (the same code in both handlers).     *)
(***************************************************************************)
visionModels ==
    <<"openai/gpt-4o", "openai/gpt-4o-mini", "anthropic/claude-3.5-sonnet",
      "anthropic/claude-3-opus", "google/gemini-pro-vision">>

includes(list, x) == \E i \in 1..Len(list) : list[i] = x

\* visionModels.find(m => supportedModels.includes(m)): "" stands for undefined
FindSupportedVisionModel(supportedModels) ==
    LET at == {i \in 1..Len(visionModels) : includes(supportedModels, visionModels[i])}
    IN IF at = {} THEN "" ELSE visionModels[CHOOSE i \in at : \A j \in at : i <= j]

\* the selected model taken as it is, whether supported or not
SelectModelUnchecked(selectedModel, supportedModels) ==
    IF selectedModel # <<>> /\ selectedModel[1] # ""
    THEN selectedModel[1]
    ELSE IF Len(supportedModels) > 0 /\ FindSupportedVisionModel(supportedModels) # ""
         THEN FindSupportedVisionModel(supportedModels)
         ELSE visionModels[1]

\* selectedModel: <<>> is null, <<name>> a string (possibly empty)
SelectModel(selectedModel, supportedModels) ==
    IF selectedModel # <<>> /\ selectedModel[1] # "" /\ includes(supportedModels, selectedModel[1])
    THEN selectedModel[1]
    ELSE IF Len(supportedModels) > 0 /\ FindSupportedVisionModel(supportedModels) # ""
         THEN FindSupportedVisionModel(supportedModels)
         ELSE visionModels[1]

\* the prompt sent: the custom text, or the handler's base prompt, which in
\* the conversation handler ends with the vocabulary context
BasePrompt(context) == [custom |-> FALSE, text |-> <<>>, context |-> context]
CustomPrompt(text) == [custom |-> TRUE, text |-> text, context |-> <<>>]

\* customPrompt || basePrompt: the custom text sent without trim()
PromptTextUntrimmed(customPrompt, basePrompt) ==
    IF customPrompt.t = "str" /\ customPrompt.s # <<>>
    THEN CustomPrompt(customPrompt.s)
    ELSE basePrompt

\* customPrompt?.trim() || basePrompt
PromptText(customPrompt, basePrompt) ==
    IF customPrompt.t = "str" /\ trim(customPrompt.s) # <<>>
    THEN CustomPrompt(trim(customPrompt.s))
    ELSE basePrompt

(***************************************************************************)
(* The conversation handler's database reads.                              *)
(***************************************************************************)
VocabularyContextLimit == 100

\* orderBy(asc(order)): each row at the place its order gives it (rows of the
\* same order by id); place is the table of the places (@@ <<>> has it
\* computed once)
OrderBy(rows) ==
    LET Before(q, r) == q.order < r.order \/ (q.order = r.order /\ q.id < r.id)
        place == [r \in rows |-> Cardinality({q \in rows : Before(q, r)}) + 1] @@ <<>>
    IN [i \in 1..Cardinality(rows) |-> CHOOSE r \in rows : place[r] = i]

\* select from lessons where id = lessonId limit 1
FindLesson(db, lessonId) == {l \in db.lessons : l.id = lessonId}

\* the vocabulary words of the vocabulary lessons of the lesson's unit, by order
UnitVocabWords(db, lesson) ==
    LET unitLessons == {l \in db.lessons : l.unitId = lesson.unitId /\ l.type = "vocabulary"}
        lessonIds == {l.id : l \in unitLessons}
    IN OrderBy({w \in db.words : w.lessonId \in lessonIds})

HasUnitLessons(db, lesson) ==
    \E l \in db.lessons : l.unitId = lesson.unitId /\ l.type = "vocabulary"

\* the whole vocabulary listed, without slice(0, 100)
VocabularyContextUnsliced(db, lesson) == UnitVocabWords(db, lesson)

\* vocabWords.slice(0, 100): the words listed in the prompt ("" when none)
VocabularyContext(db, lesson) ==
    LET vocabWords == UnitVocabWords(db, lesson)
    IN IF Len(vocabWords) > VocabularyContextLimit
       THEN SubSeq(vocabWords, 1, VocabularyContextLimit)
       ELSE vocabWords


(***************************************************************************)
(* Responses.                                                              *)
(***************************************************************************)
NoError == [text |-> "", status |-> 0, statusText |-> ""]
Message(text) == [text |-> text, status |-> 0, statusText |-> ""]
\* `OpenRouter API error: ${response.status} ${response.statusText}`
ApiErrorMessage(status, statusText) ==
    [text |-> "OpenRouter API error", status |-> status, statusText |-> statusText]

NoResponse ==
    [status |-> 0, keys |-> {}, error |-> NoError, items |-> <<>>,
     duplicates |-> <<>>, model |-> "", rawResponse |-> <<>>]

\* NextResponse.json({ error }, { status })
ErrorResponse(status, error) ==
    [NoResponse EXCEPT !.status = status, !.keys = {"error"}, !.error = error]

\* NextResponse.json({ error, rawResponse: content }, { status: 500 })
ParseFailureResponse(text, content) ==
    [NoResponse EXCEPT !.status = 500, !.keys = {"error", "rawResponse"},
                       !.error = Message(text), !.rawResponse = content]

\* NextResponse.json({ success: true, <list>, duplicates, model })
SuccessResponse(listKey, items, duplicates, model) ==
    [NoResponse EXCEPT !.status = 200, !.keys = {"success", listKey, "duplicates", "model"},
                       !.items = items, !.duplicates = duplicates, !.model = model]

NoCall == [made |-> FALSE, model |-> "", prompt |-> BasePrompt(<<>>)]
ApiCall(model, prompt) == [made |-> TRUE, model |-> model, prompt |-> prompt]

Result(response, calls, call) == [resp |-> response, effects |-> calls, sent |-> call]

\* throw new Error(errorData.error?.message || `OpenRouter API error: ...`),
\* where errorData is {} when the error body is no JSON
UpstreamErrorMessage(upstream) ==
    IF upstream.errorBody = "json" /\ upstream.errorMessage # ""
    THEN Message(upstream.errorMessage)
    ELSE ApiErrorMessage(upstream.status, upstream.statusText)

\* data.model || model
ResponseModel(upstream, model) == IF upstream.model # "" THEN upstream.model ELSE model

(***************************************************************************)
(* The vocabulary extraction handler.                                      *)
(***************************************************************************)
\* the try block around the reply: the lists it leaves behind, or a throw
VocabularyParse(content, existingWords) ==
    LET parsed == ParseReply(content)
    IN IF ~parsed.ok \/ ReadsThrow(parsed.value) \/ ExistingWordsThrow(existingWords)
       THEN [ok |-> FALSE, wordPairs |-> <<>>, pushed |-> <<>>]
       ELSE LET d == DedupWords(ValidatePairs(parsed.value), existingWords.entries)
            IN [ok |-> TRUE, wordPairs |-> d.unique, pushed |-> d.pushed]

\* The duplicates the response carries: the array declared before the try
\* block.  The filter pushes to a second array of the same name that is
\* declared with const inside the try block, so the outer one stays empty.
VocabularyDuplicates(parse) == <<>>

VocabularyReply(upstream, existingWords, model, calls, call) ==
    IF ~upstream.ok
    THEN Result(ErrorResponse(500, UpstreamErrorMessage(upstream)), calls, call)
    ELSE LET parse == VocabularyParse(upstream.content, existingWords)
         IN IF ~parse.ok
            THEN Result(ParseFailureResponse("Failed to parse extracted word pairs", upstream.content),
                        calls, call)
            ELSE Result(SuccessResponse("wordPairs", parse.wordPairs, VocabularyDuplicates(parse),
                                        ResponseModel(upstream, model)),
                        calls, call)

VocabularyCall(r, e, calls) ==
    LET existingWords == ParseExisting(r.existing)
    IN IF ~e.config.present \/ e.config.apiKey = ""
       THEN Result(ErrorResponse(500, Message("OpenRouter API key not configured")),
                   Append(calls, "getOpenRouterConfig"), NoCall)
       ELSE LET model == SelectModel(r.model, e.config.supportedModels)
                promptText == PromptText(r.customPrompt, BasePrompt(<<>>))
            IN VocabularyReply(e.upstream, existingWords, model,
                               calls \o <<"getOpenRouterConfig", "fetch">>,
                               ApiCall(model, promptText))

VocabularyForm(r, e, calls) ==
    IF ~r.file.present
    THEN Result(ErrorResponse(400, Message("No image file provided")), calls, NoCall)
    ELSE IF ~startsWith(r.file.type, ImagePrefix)
    THEN Result(ErrorResponse(400, Message("File must be an image")), calls, NoCall)
    ELSE VocabularyCall(r, e, calls)

\* a handler that reads the form before it asks requireAdmin
VocabularyHandlerFormFirst(r, e) ==
    IF ~e.admin
    THEN Result(ErrorResponse(401, Message("Unauthorized")), <<"formData", "requireAdmin">>, NoCall)
    ELSE VocabularyForm(r, e, <<"formData", "requireAdmin">>)

VocabularyHandler(r, e) ==
    IF ~e.admin
    THEN Result(ErrorResponse(401, Message("Unauthorized")), <<"requireAdmin">>, NoCall)
    ELSE VocabularyForm(r, e, <<"requireAdmin", "formData">>)

(***************************************************************************)
(* The conversation extraction handler.                                    *)
(***************************************************************************)
ConversationParse(content, existingSentences) ==
    LET parsed == ParseReply(content)
    IN IF ~parsed.ok \/ ReadsThrow(parsed.value) \/ ExistingSentencesThrow(existingSentences)
       THEN [ok |-> FALSE, sentences |-> <<>>, pushed |-> <<>>]
       ELSE LET d == DedupSentences(ValidateSentences(parsed.value), existingSentences.entries)
            IN [ok |-> TRUE, sentences |-> d.unique, pushed |-> d.pushed]

\* here the filter pushes to the array declared before the try block
ConversationDuplicates(parse) == parse.pushed

\* a handler that answers an unparsable reply with an empty success
ConversationReplyLenient(upstream, existingSentences, model, calls, call) ==
    IF ~upstream.ok
    THEN Result(ErrorResponse(500, UpstreamErrorMessage(upstream)), calls, call)
    ELSE LET parse == ConversationParse(upstream.content, existingSentences)
         IN Result(SuccessResponse("sentences", parse.sentences, ConversationDuplicates(parse),
                                   ResponseModel(upstream, model)),
                   calls, call)

ConversationReply(upstream, existingSentences, model, calls, call) ==
    IF ~upstream.ok
    THEN Result(ErrorResponse(500, UpstreamErrorMessage(upstream)), calls, call)
    ELSE LET parse == ConversationParse(upstream.content, existingSentences)
         IN IF ~parse.ok
            THEN Result(ParseFailureResponse("Failed to parse extracted sentences", upstream.content),
                        calls, call)
            ELSE Result(SuccessResponse("sentences", parse.sentences, ConversationDuplicates(parse),
                                        ResponseModel(upstream, model)),
                        calls, call)

ConversationCall(r, e, vocabularyContext, calls) ==
    LET existingSentences == ParseExisting(r.existing)
    IN IF ~e.config.present \/ e.config.apiKey = ""
       THEN Result(ErrorResponse(500, Message("OpenRouter API key not configured")),
                   Append(calls, "getOpenRouterConfig"), NoCall)
       ELSE LET model == SelectModel(r.model, e.config.supportedModels)
                promptText == PromptText(r.customPrompt, BasePrompt(vocabularyContext))
            IN ConversationReply(e.upstream, existingSentences, model,
                                 calls \o <<"getOpenRouterConfig", "fetch">>,
                                 ApiCall(model, promptText))

ConversationLesson(r, e, lessonId, calls) ==
    LET found == FindLesson(e.db, lessonId)
    IN IF found = {}
       THEN Result(ErrorResponse(404, Message("Lesson not found")),
                   Append(calls, "db.lesson"), NoCall)
       ELSE LET lesson == CHOOSE l \in found : TRUE
            IN ConversationCall(r, e, VocabularyContext(e.db, lesson),
                   calls \o <<"db.lesson", "db.unitLessons">>
                         \o (IF HasUnitLessons(e.db, lesson) THEN <<"db.vocabularyWords">> ELSE <<>>))

ConversationForm(r, e, calls) ==
    IF ~r.file.present
    THEN Result(ErrorResponse(400, Message("No image file provided")), calls, NoCall)
    ELSE IF r.lessonId.t # "str" \/ r.lessonId.s = <<>>
    THEN Result(ErrorResponse(400, Message("Lesson ID is required")), calls, NoCall)
    ELSE IF parseInt(r.lessonId.s).nan
    THEN Result(ErrorResponse(400, Message("Invalid lesson ID")), calls, NoCall)
    ELSE IF ~startsWith(r.file.type, ImagePrefix)
    THEN Result(ErrorResponse(400, Message("File must be an image")), calls, NoCall)
    ELSE ConversationLesson(r, e, parseInt(r.lessonId.s).n, calls)

ConversationHandler(r, e) ==
    IF ~e.admin
    THEN Result(ErrorResponse(401, Message("Unauthorized")), <<"requireAdmin">>, NoCall)
    ELSE ConversationForm(r, e, <<"requireAdmin", "formData">>)


(***************************************************************************)
(* The requests and the collaborators' answers the model enumerates.       *)
(* Each family varies the fields one part of the handlers reads and holds  *)
(* the others at their defaults.                                           *)
(***************************************************************************)
SeqsUpTo(S, n) == UNION {[1..k -> S] : k \in 0..n}

ImagePng == <<"i", "m", "a", "g", "e", "/", "p", "n", "g">>
TextPlain == <<"t", "e", "x", "t", "/", "p", "l", "a", "i", "n">>
ImageNoSlash == <<"i", "m", "a", "g", "e">>

Files ==
    {[present |-> FALSE, type |-> <<>>], [present |-> TRUE, type |-> ImagePng],
     [present |-> TRUE, type |-> TextPlain], [present |-> TRUE, type |-> ImageNoSlash]}

LessonIds ==
    {NoField, Str(<<>>), Str(<<"x">>), Str(<<"7">>), Str(<<"7", "x">>),
     Str(<<" ", "7">>), Str(<<"9">>)}

\* lesson 7 is a conversation lesson of unit 1, lesson 8 its vocabulary lesson
Lessons ==
    {[id |-> 7, unitId |-> 1, type |-> "conversation"],
     [id |-> 8, unitId |-> 1, type |-> "vocabulary"],
     [id |-> 5, unitId |-> 2, type |-> "vocabulary"]}

Words ==
    {[id |-> 1, lessonId |-> 8, order |-> 2], [id |-> 2, lessonId |-> 8, order |-> 1],
     [id |-> 3, lessonId |-> 5, order |-> 0]}

\* one word more than the prompt lists, all of lesson 8, the later the smaller order
ManyWords ==
    {[id |-> i, lessonId |-> 8, order |-> VocabularyContextLimit + 2 - i] :
        i \in 1..VocabularyContextLimit + 1}

Databases ==
    {[lessons |-> Lessons, words |-> Words],
     [lessons |-> Lessons, words |-> ManyWords \cup {w \in Words : w.lessonId = 5}],
     [lessons |-> Lessons, words |-> {}],
     [lessons |-> {l \in Lessons : l.id = 7}, words |-> {}]}

Configs ==
    {[present |-> FALSE, apiKey |-> "", supportedModels |-> <<>>],
     [present |-> TRUE, apiKey |-> "", supportedModels |-> <<"openai/gpt-4o">>],
     [present |-> TRUE, apiKey |-> "sk-or", supportedModels |-> <<"openai/gpt-4o">>]}

SupportedLists ==
    {<<>>, <<"meta/llama-3">>, <<"openai/gpt-4o">>,
     <<"meta/llama-3", "openai/gpt-4o-mini">>,
     <<"google/gemini-pro-vision", "anthropic/claude-3-opus">>}

SelectedModels ==
    {<<>>, <<"">>, <<"openai/gpt-4o">>, <<"openai/gpt-4o-mini">>, <<"meta/llama-3">>}

CustomPrompts ==
    {NoField, Str(<<>>), Str(<<" ">>), Str(<<" ", "p", " ">>), Str(<<"p", " ", "q">>)}

ReplyArabic == {Str(<<" ">>), Str(<<" ", "A">>), Str(<<"b">>)}
ReplyEnglish == {Undef, Str(<<"B", " ">>)}
ReplyItems == {Obj(a, e) : a \in ReplyArabic, e \in ReplyEnglish} \cup {NullItem}

ArrayContent(items) == <<Open>> \o [i \in 1..Len(items) |-> Item(items[i])] \o <<Close>>

ReplyContents == {ArrayContent(items) : items \in SeqsUpTo(ReplyItems, MaxReply)}

ExistingEntries ==
    {Pair(Str(<<"a", " ">>), Str(<<"b">>)), Pair(Str(<<"b">>), Str(<<"c">>)),
     Pair(Str(<<"A">>), Undef), Pair(Undef, Str(<<"b">>))}

ExistingFields ==
    {ExistingAbsent, ExistingUnparsable, ExistingNotArray}
        \cup {ExistingArray(entries) : entries \in SeqsUpTo(ExistingEntries, MaxExisting)}

\* field values of every JavaScript type, for replies of one item
AnyValue ==
    {Undef, Null, Str(<<>>), Str(<<" ">>), Str(<<"a">>), Num(<<"0">>), Num(<<"7">>)}

OneItemContents ==
    {<<Text, Open, Item(Obj(a, e)), Close, Text>> : a \in AnyValue, e \in AnyValue}

\* replies of any shape, up to MaxTokens tokens
MaxTokens == 4
Tokens == {Text, Open, Close, Item(Obj(Str(<<"b">>), Str(<<"B", " ">>))), Item(NullItem)}
TokenContents == SeqsUpTo(Tokens, MaxTokens)

OkUpstream(content) ==
    [ok |-> TRUE, status |-> 200, statusText |-> "OK", errorBody |-> "json",
     errorMessage |-> "", model |-> "", content |-> content]

FailedUpstreams ==
    {[ok |-> FALSE, status |-> st, statusText |-> IF st = 429 THEN "Too Many Requests" ELSE "Bad Gateway",
      errorBody |-> b, errorMessage |-> m, model |-> "", content |-> <<>>] :
        st \in {429, 502}, b \in {"json", "unparsable"}, m \in {"", "Rate limit exceeded"}}
        \ {u \in [ok : {FALSE}, status : {429, 502}, statusText : {"Too Many Requests", "Bad Gateway"},
                   errorBody : {"unparsable"}, errorMessage : {"Rate limit exceeded"},
                   model : {""}, content : {<<>>}] : TRUE}

DefaultRequest ==
    [file |-> [present |-> TRUE, type |-> ImagePng], model |-> <<>>,
     customPrompt |-> NoField, existing |-> ExistingAbsent, lessonId |-> Str(<<"7">>)]

DefaultEnv ==
    [admin |-> TRUE, db |-> [lessons |-> {l \in Lessons : l.id = 7}, words |-> {}],
     config |-> [present |-> TRUE, apiKey |-> "sk-or", supportedModels |-> <<"openai/gpt-4o">>],
     upstream |-> OkUpstream(<<Open, Close>>)]

Input(r, e) == [req |-> r, env |-> e]

\* who asks, with which file and lesson, against which configuration
GateInputs ==
    {Input([DefaultRequest EXCEPT !.file = f, !.lessonId = l],
           [DefaultEnv EXCEPT !.admin = a, !.config = c]) :
        f \in Files, l \in LessonIds, a \in BOOLEAN, c \in Configs}

\* which model and prompt are asked for, and what the unit's vocabulary is
ChoiceInputs ==
    {Input([DefaultRequest EXCEPT !.model = m, !.customPrompt = p],
           [DefaultEnv EXCEPT !.config.supportedModels = s, !.db = d]) :
        m \in SelectedModels, p \in CustomPrompts, s \in SupportedLists, d \in Databases}

\* what the model API answers
UpstreamInputs ==
    {Input(DefaultRequest, [DefaultEnv EXCEPT !.upstream = u]) :
        u \in FailedUpstreams
             \cup {OkUpstream(c) : c \in TokenContents \cup OneItemContents}
             \cup {[OkUpstream(<<Open, Close>>) EXCEPT !.model = "openai/gpt-4o-2024-08-06"]}}

\* the reply array against the existing records
DedupInputs ==
    {Input([DefaultRequest EXCEPT !.existing = x],
           [DefaultEnv EXCEPT !.upstream = OkUpstream(c)]) :
        x \in ExistingFields, c \in ReplyContents}

Inputs == GateInputs \cup ChoiceInputs \cup UpstreamInputs \cup DedupInputs

(***************************************************************************)
(* The server-rendered pages.  redirect() and notFound() of next/navigation *)
(* throw, so a page that calls one of them runs no further.                *)
(***************************************************************************)
Rendered(result, asked) == [outcome |-> result, queries |-> asked]

\* the catalog rows the page actions read
BookExists(catalog, id) == \E b \in catalog.books : b.id = id
UnitRows(catalog, id) == {u \in catalog.units : u.id = id}
LessonRows(catalog, id) == {l \in catalog.lessons : l.id = id}

BooksPageRender(v) ==
    IF ~v.session THEN Rendered("redirect /login", <<>>)
    ELSE Rendered("page", <<"getBooks">>)

BookDetailPageRender(v) ==
    IF ~v.session THEN Rendered("redirect /login", <<>>)
    ELSE IF parseInt(v.id).nan THEN Rendered("notFound", <<>>)
    ELSE LET asked == <<"getBookById", "getUnitsByBook">>
         IN IF ~BookExists(v.catalog, parseInt(v.id).n)
            THEN Rendered("notFound", asked)
            ELSE Rendered("page", asked)

UnitDetailPageRender(v) ==
    IF ~v.session THEN Rendered("redirect /login", <<>>)
    ELSE IF parseInt(v.id).nan THEN Rendered("notFound", <<>>)
    ELSE LET asked == <<"getUnitById", "getLessonsByUnit">>
         IN IF UnitRows(v.catalog, parseInt(v.id).n) = {}
            THEN Rendered("notFound", asked)
            ELSE Rendered("page", Append(asked, "getBookById"))

AdminLessonsPageRender(v) ==
    IF ~v.admin THEN Rendered("redirect /", <<>>)
    ELSE IF parseInt(v.id).nan THEN Rendered("notFound", <<>>)
    ELSE LET asked == <<"getLessonsByUnit", "getUnitById">>
         IN IF UnitRows(v.catalog, parseInt(v.id).n) = {}
            THEN Rendered("notFound", asked)
            ELSE Rendered("page", asked)

\* a page that starts its queries before it looks at isAdmin()
AdminVocabularyPageRenderFetchFirst(v) ==
    LET asked == <<"getVocabularyWordsByLesson", "getLessonById">>
        rows == LessonRows(v.catalog, parseInt(v.id).n)
    IN IF parseInt(v.id).nan THEN Rendered("notFound", <<>>)
       ELSE IF ~v.admin THEN Rendered("redirect /", asked)
       ELSE IF rows = {} THEN Rendered("notFound", asked)
       ELSE IF (CHOOSE l \in rows : TRUE).type # "vocabulary"
            THEN Rendered("redirect /admin/units/:unitId/lessons", asked)
            ELSE Rendered("page", asked)

AdminVocabularyPageRender(v) ==
    IF ~v.admin THEN Rendered("redirect /", <<>>)
    ELSE IF parseInt(v.id).nan THEN Rendered("notFound", <<>>)
    ELSE LET asked == <<"getVocabularyWordsByLesson", "getLessonById">>
             rows == LessonRows(v.catalog, parseInt(v.id).n)
         IN IF rows = {} THEN Rendered("notFound", asked)
            ELSE IF (CHOOSE l \in rows : TRUE).type # "vocabulary"
                 THEN Rendered("redirect /admin/units/:unitId/lessons", asked)
                 ELSE Rendered("page", asked)

Catalogs ==
    {[books |-> {}, units |-> {}, lessons |-> {}],
     [books |-> {[id |-> 1]},
      units |-> {[id |-> 1, bookId |-> 1], [id |-> 2, bookId |-> 9]},
      lessons |-> Lessons]}

IdParams == {<<"x">>, <<"1">>, <<"2">>, <<"7">>, <<"8">>, <<"1", "x">>}

Visits ==
    {[session |-> s, admin |-> a, id |-> i, catalog |-> c] :
        s \in BOOLEAN, a \in BOOLEAN, i \in IdParams, c \in Catalogs}

(***************************************************************************)
(* ConversationDisplay: the component's state and refs (display), the      *)
(* browser's window.speechSynthesis (speech), and what has been spoken      *)
(* since the user's last press (heard).  The handlers are operators on the  *)
(* record w = [d |-> display, s |-> speech, h |-> heard].                   *)
(***************************************************************************)
MaxPresses == 4     \* presses of the user on the component

\* playingSentenceId === null
NoSentence == 0

Sentence(id, order, arabic, english) ==
    [id |-> id, order |-> order, arabic |-> arabic, english |-> english]

\* [...sentences].sort((a, b) => a.order - b.order): a stable sort
RECURSIVE InsertByOrder(_, _)
InsertByOrder(sorted, s) ==
    IF sorted = <<>> THEN <<s>>
    ELSE IF s.order < Head(sorted).order THEN <<s>> \o sorted
    ELSE <<Head(sorted)>> \o InsertByOrder(Tail(sorted), s)

RECURSIVE sortedSentences(_)
sortedSentences(sentences) ==
    IF sentences = <<>> THEN <<>>
    ELSE InsertByOrder(sortedSentences(SubSeq(sentences, 1, Len(sentences) - 1)),
                       sentences[Len(sentences)])

\* s.arabic && s.arabic.trim().length > 0, or the same of s.english
hasText(s, language) ==
    LET text == IF language = "arabic" THEN s.arabic ELSE s.english
    IN Truthy(text) /\ Len(trim(text.s)) > 0

playableSentences(sentences, language) ==
    SelectSeq(sortedSentences(sentences), LAMBDA s : hasText(s, language))

\* the onEnd callbacks: the closure of playSentenceSequentially holds the
\* language and the index of its call, and run tells the press that made it
ChainEnd(language, index, run) ==
    [kind |-> "chain", language |-> language, index |-> index, run |-> run]
SingleEnd == [kind |-> "single", language |-> "arabic", index |-> 0, run |-> 0]

\* timeoutRef.current: null, or the pending 300 ms timer with its closure
NoTimer == [set |-> FALSE, language |-> "arabic", index |-> 0, run |-> 0]
Timer(language, index, run) ==
    [set |-> TRUE, language |-> language, index |-> index, run |-> run]

\* new SpeechSynthesisUtterance(text) with its onend / onerror; cut tells
\* that playAudio's cancel() removed an utterance to make way for it
Utterance(id, onEnd, cut) == [id |-> id, onEnd |-> onEnd, cut |-> cut]

\* window.speechSynthesis?.cancel(): the queue is emptied, and the end /
\* error event of each removed utterance is delivered later
cancel(w) ==
    IF ~w.s.supported THEN w
    ELSE [w EXCEPT !.s.utterances = <<>>,
                   !.s.events = @ \o [i \in 1..Len(w.s.utterances) |->
                                         w.s.utterances[i].onEnd]]

\* speechSynthesis.speak(utterance)
speak(w, u) ==
    [w EXCEPT !.s.utterances = Append(@, u),
              !.h.spoken = Append(@, [id |-> u.id, kind |-> u.onEnd.kind,
                                      run |-> u.onEnd.run, cut |-> u.cut])]

\* playAudio(text, lang, onEnd): without speechSynthesis it returns at once
playAudio(w, id, onEnd) ==
    LET w1 == cancel(w)
        u == Utterance(id, onEnd, w.s.utterances # <<>>)
    IN IF ~w.s.supported THEN w
       ELSE IF ~w1.s.voices
       THEN [w1 EXCEPT !.s.onvoiceschanged = <<u>>]
       ELSE speak(w1, u)

\* the state a finished or stopped Play All leaves
Stopped(d) ==
    [d EXCEPT !.isPlayingAll = FALSE, !.playingSentenceId = NoSentence,
              !.currentPlayAllIndex = 0, !.playAllQueueRef = <<>>]

\* playSentenceSequentially(playableSentences, index); index counts from 0
playSentenceSequentially(w, language, index, run) ==
    LET list == playableSentences(w.d.sentences, language)
    IN IF ~w.d.shouldContinuePlayingRef THEN w
       ELSE IF index >= Len(list)
       THEN [w EXCEPT !.d = [Stopped(w.d) EXCEPT !.shouldContinuePlayingRef = FALSE]]
       ELSE playAudio([w EXCEPT !.d.playingSentenceId = list[index + 1].id,
                                !.d.currentPlayAllIndex = index],
                      list[index + 1].id, ChainEnd(language, index, run))

\* shouldContinuePlayingRef.current = false; cancel(); clearTimeout(...)
StopPlayback(w) ==
    cancel([w EXCEPT !.d.shouldContinuePlayingRef = FALSE, !.d.timeoutRef = NoTimer])

handlePlayAll(w, run) ==
    IF w.d.isPlayingAll
    THEN LET w1 == StopPlayback(w) IN [w1 EXCEPT !.d = Stopped(w1.d)]
    ELSE LET list == playableSentences(w.d.sentences, w.d.selectedLanguage)
         IN IF list = <<>> THEN w
            ELSE playSentenceSequentially(
                     [w EXCEPT !.d.shouldContinuePlayingRef = TRUE,
                               !.d.isPlayingAll = TRUE,
                               !.d.currentPlayAllIndex = 0,
                               !.d.playAllQueueRef = [i \in 1..Len(list) |-> list[i].id]],
                     w.d.selectedLanguage, 0, run)

handlePlaySentence(w, sentence) ==
    LET w1 == IF w.d.isPlayingAll
              THEN LET w0 == StopPlayback(w)
                   IN [w0 EXCEPT !.d.isPlayingAll = FALSE, !.d.currentPlayAllIndex = 0,
                                 !.d.playAllQueueRef = <<>>]
              ELSE w
    IN IF w.d.playingSentenceId = sentence.id
       THEN [cancel(w1) EXCEPT !.d.playingSentenceId = NoSentence]
       ELSE IF ~hasText(sentence, w.d.selectedLanguage) THEN w1
       ELSE playAudio([w1 EXCEPT !.d.playingSentenceId = sentence.id], sentence.id, SingleEnd)

\* setSelectedLanguage(value) and the effect that follows the render
selectLanguage(w, language) ==
    LET w1 == StopPlayback([w EXCEPT !.d.selectedLanguage = language])
    IN [w1 EXCEPT !.d = Stopped(w1.d)]

\* utterance.onend = utterance.onerror = onEnd
onEnd(w, callback) ==
    IF callback.kind = "single" THEN [w EXCEPT !.d.playingSentenceId = NoSentence]
    ELSE IF ~w.d.shouldContinuePlayingRef THEN w
    ELSE [w EXCEPT !.d.timeoutRef = Timer(callback.language, callback.index, callback.run)]

\* the callback of setTimeout(..., 300)
onTimeout(w) ==
    LET t == w.d.timeoutRef
        w1 == IF w.d.shouldContinuePlayingRef
              THEN playSentenceSequentially(w, t.language, t.index + 1, t.run)
              ELSE w
    IN [w1 EXCEPT !.d.timeoutRef = NoTimer]

\* window.speechSynthesis.onvoiceschanged
onvoiceschanged(w) ==
    LET w1 == [w EXCEPT !.s.voices = TRUE]
    IN IF w.s.onvoiceschanged = <<>> THEN w1
       ELSE speak([w1 EXCEPT !.s.onvoiceschanged = <<>>], w.s.onvoiceschanged[1])

\* the conversations shown: orders that differ from the array's, a blank
\* Arabic text, a missing and an empty English text, two equal orders
SentenceLists ==
    {<<Sentence(1, 2, Str(<<"a">>), Str(<<"e">>)),
       Sentence(2, 0, Str(<<"b">>), Null),
       Sentence(3, 1, Str(<<" ">>), Str(<<"f">>))>>,
     <<Sentence(1, 1, Str(<<"a">>), Str(<<>>)),
       Sentence(2, 1, Str(<<"b">>), Str(<<" ">>)),
       Sentence(3, 0, Str(<<"c">>), Null)>>}

Languages == {"arabic", "english"}

DisplayMounted(sentences) ==
    [sentences |-> sentences, selectedLanguage |-> "arabic",
     playingSentenceId |-> NoSentence, isPlayingAll |-> FALSE,
     currentPlayAllIndex |-> 0, playAllQueueRef |-> <<>>,
     shouldContinuePlayingRef |-> FALSE, timeoutRef |-> NoTimer]

\* window.speechSynthesis: whether the browser has it, and whether
\* getVoices() already returns voices
SpeechReady(supported, voices) ==
    [supported |-> supported, voices |-> voices, onvoiceschanged |-> <<>>,
     utterances |-> <<>>, events |-> <<>>]

Browsers == {SpeechReady(TRUE, TRUE), SpeechReady(TRUE, FALSE), SpeechReady(FALSE, FALSE)}

NothingHeard == [presses |-> 0, last |-> "none", spoken |-> <<>>, stale |-> FALSE]

\* the user presses: what was spoken is counted from the press on; stale
\* tells that the press follows Stop All while the callback of a cancelled
\* Play All utterance is undelivered
Press(w, name) ==
    [w EXCEPT !.h = [presses |-> w.h.presses + 1, last |-> name, spoken |-> <<>>,
                     stale |-> /\ w.h.last = "stopAll"
                               /\ \E i \in 1..Len(w.s.events) : w.s.events[i].kind = "chain"]]

(***************************************************************************)
(* VocabularyFlashcards: the component's React state (flash).  The words   *)
(* have the ids 1..words; currentIndex counts from 0.  A test answer is    *)
(* the id of the word whose English was chosen, 0 while none is chosen.    *)
(***************************************************************************)
MaxWords == 3       \* words of the lesson
MaxAnswers == 1     \* practice answers counted in progress

Modes == {"learn", "practice", "test"}

NoProgress == [seen |-> FALSE, correctCount |-> 0, incorrectCount |-> 0]

FlashcardsMounted(n) ==
    [words |-> n, mode |-> "learn", currentIndex |-> 0, isFlipped |-> FALSE,
     testAnswers |-> [i \in 1..n |-> 0], testOptions |-> FALSE,
     testResults |-> <<>>, testSubmitted |-> FALSE,
     progress |-> [i \in 1..n |-> NoProgress]]

\* words[currentIndex]?.id: 0 when there is no such word
currentWord(f) == IF f.currentIndex < f.words THEN f.currentIndex + 1 ELSE 0

\* a Next without the test of the last word
handleNextUnchecked(f) ==
    [f EXCEPT !.currentIndex = f.currentIndex + 1, !.isFlipped = FALSE]

handleNext(f) ==
    IF f.currentIndex < f.words - 1
    THEN [f EXCEPT !.currentIndex = f.currentIndex + 1, !.isFlipped = FALSE]
    ELSE f

handlePrevious(f) ==
    IF f.currentIndex > 0
    THEN [f EXCEPT !.currentIndex = f.currentIndex - 1, !.isFlipped = FALSE]
    ELSE f

handleFlip(f) == [f EXCEPT !.isFlipped = ~f.isFlipped]

handleTestAnswer(f, wordId, answer) == [f EXCEPT !.testAnswers[wordId] = answer]

\* results[word.id] = answer === word.english; the progress goes to the
\* server only
handleTestSubmit(f) ==
    [f EXCEPT !.testResults = [i \in 1..f.words |-> f.testAnswers[i] = i],
              !.testSubmitted = TRUE]

handleTestReset(f) ==
    [f EXCEPT !.testAnswers = [i \in 1..f.words |-> 0], !.testOptions = FALSE,
              !.testResults = <<>>, !.testSubmitted = FALSE, !.currentIndex = 0]

\* updateUserProgress, then setProgress when it did not throw (saved)
handlePracticeAnswer(f, correct, saved) ==
    LET id == currentWord(f)
    IN IF id = 0 \/ ~saved THEN f
       ELSE [f EXCEPT !.progress[id] =
                [seen |-> TRUE,
                 correctCount |-> @.correctCount + (IF correct THEN 1 ELSE 0),
                 incorrectCount |-> @.incorrectCount + (IF correct THEN 0 ELSE 1)]]

\* the Correct / Incorrect buttons of the card
practiceAnswer(f, correct, saved) ==
    [handleNext(handlePracticeAnswer(f, correct, saved)) EXCEPT !.isFlipped = FALSE]

\* the mode buttons
selectMode(f, mode) ==
    LET g == [f EXCEPT !.mode = mode, !.isFlipped = FALSE, !.testSubmitted = FALSE]
    IN IF mode = "test"
       THEN [g EXCEPT !.testAnswers = [i \in 1..f.words |-> 0], !.testOptions = FALSE,
                      !.testResults = <<>>]
       ELSE g

\* the effect that generates the options when test mode has none
optionsEffect(f) ==
    IF f.mode = "test" /\ f.words > 0 /\ ~f.testOptions
    THEN [f EXCEPT !.testOptions = TRUE]
    ELSE f

\* the effect on [currentWord?.id, mode, testSubmitted] that marks the word
\* seen: it runs when one of them changed, and sets progress when
\* updateUserProgress did not throw (saved)
seenEffect(before, f, saved) ==
    LET id == currentWord(f)
        changed == \/ currentWord(before) # id
                   \/ before.mode # f.mode
                   \/ before.testSubmitted # f.testSubmitted
    IN IF changed /\ id # 0 /\ f.mode \in {"learn", "practice"} /\ ~f.testSubmitted
          /\ ~before.progress[id].seen /\ saved
       THEN [f EXCEPT !.progress[id].seen = TRUE]
       ELSE f

\* the options of a word's question: its own English and wrong answers taken
\* from the other words; here one wrong answer at most
OptionsShown(f, wordId) == {wordId, (wordId % f.words) + 1}

\* the render after a handler, with its effects
rendered(before, f, saved) == seenEffect(before, optionsEffect(f), saved)

\* practice answers counted in progress so far
RECURSIVE AnswersCounted(_, _)
AnswersCounted(progress, n) ==
    IF n = 0 THEN 0
    ELSE progress[n].correctCount + progress[n].incorrectCount + AnswersCounted(progress, n - 1)

(***************************************************************************)
(* The admin editors VocabularyManagement and UnitManagement (editor): the *)
(* same code over word pairs (arabic, english, order) and units (title,    *)
(* order); text is the arabic or the title.  A server action started by a  *)
(* handler is in flight, with the closure of the render that started it,   *)
(* until it resolves or throws.                                            *)
(***************************************************************************)
MaxOps == 4         \* presses and inputs of the admin

Fields(text, english, order) == [text |-> text, english |-> english, order |-> order]
Row(id, fields) ==
    [id |-> id, text |-> fields.text, english |-> fields.english, order |-> fields.order]

\* useState({ arabic: "", english: "", order: words.length })
EmptyForm(order) == Fields(<<>>, <<>>, order)

\* what the admin sees
Visible(e) ==
    [rows |-> e.rows, editingId |-> e.editingId, editData |-> e.editData,
     isCreating |-> e.isCreating, newItem |-> e.newItem]

NoEditor ==
    [kind |-> "none", tracked |-> FALSE, rows |-> <<>>, editingId |-> 0, editData |-> <<>>,
     isCreating |-> FALSE, newItem |-> EmptyForm(0), inFlight |-> <<>>, nextId |-> 1,
     ops |-> 0, last |-> "none",
     previous |-> [rows |-> <<>>, editingId |-> 0, editData |-> <<>>,
                   isCreating |-> FALSE, newItem |-> EmptyForm(0)]]

\* the component with its initial rows; tracked tells whether isPending of
\* useTransition lasts until the server action has settled
EditorMounted(kind, tracked, rows) ==
    [NoEditor EXCEPT !.kind = kind, !.tracked = tracked, !.rows = rows,
                     !.newItem = EmptyForm(Len(rows)), !.nextId = Len(rows) + 1,
                     !.previous.rows = rows, !.previous.newItem = EmptyForm(Len(rows))]

isPending(e) == e.tracked /\ e.inFlight # <<>>

\* a server action in flight: the words / units of the closure come along
Request(op, id, fields, rows) == [op |-> op, id |-> id, fields |-> fields, rows |-> rows]

startTransition(e, request) == [e EXCEPT !.inFlight = Append(@, request)]

handleEdit(e, row) ==
    [e EXCEPT !.editingId = row.id,
              !.editData = <<Fields(row.text, row.english, row.order)>>]

handleCancel(e) ==
    [e EXCEPT !.editingId = 0, !.editData = <<>>, !.isCreating = FALSE,
              !.newItem = EmptyForm(Len(e.rows))]

handleSave(e, id) ==
    IF e.editData = <<>> THEN e
    ELSE startTransition(e, Request("update", id, e.editData[1], e.rows))

\* !newWord.arabic.trim() || !newWord.english.trim(), or !newUnit.title.trim()
FormIncomplete(e) ==
    \/ trim(e.newItem.text) = <<>>
    \/ e.kind = "vocabulary" /\ trim(e.newItem.english) = <<>>

handleCreate(e) ==
    IF FormIncomplete(e) THEN e
    ELSE startTransition(e, Request("create", 0, e.newItem, e.rows))

\* confirm(...) first
handleDelete(e, id, confirmed) ==
    IF ~confirmed THEN e
    ELSE startTransition(e, Request("delete", id, EmptyForm(0), e.rows))

\* the lines after the await: they run when the server action has resolved
resolved(e, r) ==
    CASE r.op = "update" ->
            [e EXCEPT !.rows = [i \in 1..Len(r.rows) |->
                                  IF r.rows[i].id = r.id THEN Row(r.id, r.fields)
                                  ELSE r.rows[i]],
                      !.editingId = 0, !.editData = <<>>]
      [] r.op = "create" ->
            [e EXCEPT !.rows = Append(r.rows, Row(e.nextId, r.fields)),
                      !.nextId = e.nextId + 1,
                      !.isCreating = FALSE,
                      !.newItem = EmptyForm(Len(r.rows) + 1)]
      [] OTHER ->
            [e EXCEPT !.rows = SelectSeq(r.rows, LAMBDA w : w.id # r.id)]

\* a catch block that closes the editor and the form
thrownClosing(e, r) == [e EXCEPT !.editingId = 0, !.editData = <<>>, !.isCreating = FALSE]

\* the catch block: console.error and alert
thrown(e, r) == e

\* the in-flight actions without the i-th
Settled(e, i) ==
    [e EXCEPT !.inFlight = SubSeq(@, 1, i - 1) \o SubSeq(@, i + 1, Len(@))]

\* what a step of the given name leaves: previous is what was visible before
Step(e, next, name) ==
    [next EXCEPT !.last = name, !.previous = Visible(e),
                 !.ops = IF name = "press" THEN e.ops + 1 ELSE e.ops]

Typed == {<<>>, <<" ">>, <<"a">>}
TypedOrders == {0, 2}

InitialRows ==
    {<<>>,
     <<Row(1, Fields(<<"b">>, <<"c">>, 0)), Row(2, Fields(<<"d">>, <<"e">>, 1))>>}

(***************************************************************************)
(* The server: it serves one request.                                      *)
(***************************************************************************)
NoVisit == [session |-> FALSE, admin |-> FALSE, id |-> <<>>, catalog |-> [books |-> {}, units |-> {}, lessons |-> {}]]

\* no request served yet
ServerInit ==
    /\ served = "none"
    /\ req = DefaultRequest
    /\ env = DefaultEnv
    /\ effects = <<>>
    /\ sent = NoCall
    /\ resp = NoResponse
    /\ visit = NoVisit
    /\ queries = <<>>
    /\ outcome = "none"

\* no component mounted in a browser
ClientInit ==
    /\ display = DisplayMounted(<<>>)
    /\ speech = SpeechReady(FALSE, FALSE)
    /\ heard = NothingHeard
    /\ flash = FlashcardsMounted(0)
    /\ editor = NoEditor

Init == ServerInit /\ ClientInit

\* POST /api/admin/parse-vocabulary-image
VocabularyPOST ==
    /\ served = "none"
    /\ \E in \in Inputs :
          LET out == VocabularyHandler(in.req, in.env)
          IN /\ served' = "vocabulary"
             /\ req' = in.req
             /\ env' = in.env
             /\ effects' = out.effects
             /\ sent' = out.sent
             /\ resp' = out.resp
    /\ UNCHANGED pageVars
    /\ UNCHANGED clientVars

\* POST /api/admin/parse-conversation-image
ConversationPOST ==
    /\ served = "none"
    /\ \E in \in Inputs :
          LET out == ConversationHandler(in.req, in.env)
          IN /\ served' = "conversation"
             /\ req' = in.req
             /\ env' = in.env
             /\ effects' = out.effects
             /\ sent' = out.sent
             /\ resp' = out.resp
    /\ UNCHANGED pageVars
    /\ UNCHANGED clientVars

ServePage(name, v, out) ==
    /\ served' = name
    /\ visit' = v
    /\ queries' = out.queries
    /\ outcome' = out.outcome
    /\ UNCHANGED extractVars
    /\ UNCHANGED clientVars

\* /books
BooksPage == served = "none" /\ \E v \in Visits : ServePage("BooksPage", v, BooksPageRender(v))

\* /books/[id]
BookDetailPage ==
    served = "none" /\ \E v \in Visits : ServePage("BookDetailPage", v, BookDetailPageRender(v))

\* /units/[id]
UnitDetailPage ==
    served = "none" /\ \E v \in Visits : ServePage("UnitDetailPage", v, UnitDetailPageRender(v))

\* /admin/units/[id]/lessons
AdminLessonsPage ==
    served = "none" /\ \E v \in Visits : ServePage("AdminLessonsPage", v, AdminLessonsPageRender(v))

\* /admin/lessons/[id]/vocabulary
AdminVocabularyPage ==
    served = "none"
        /\ \E v \in Visits : ServePage("AdminVocabularyPage", v, AdminVocabularyPageRender(v))

Next ==
    \/ VocabularyPOST
    \/ ConversationPOST
    \/ BooksPage
    \/ BookDetailPage
    \/ UnitDetailPage
    \/ AdminLessonsPage
    \/ AdminVocabularyPage

Spec == Init /\ [][Next]_vars

(***************************************************************************)
(* The browser: a mounted ConversationDisplay, the user and the events of  *)
(* speechSynthesis.                                                        *)
(***************************************************************************)
World == [d |-> display, s |-> speech, h |-> heard]

Becomes(w) ==
    /\ display' = w.d
    /\ speech' = w.s
    /\ heard' = w.h
    /\ UNCHANGED serverVars
    /\ UNCHANGED <<flash, editor>>

PlaybackInit ==
    /\ ServerInit
    /\ \E sentences \in SentenceLists : display = DisplayMounted(sentences)
    /\ speech \in Browsers
    /\ heard = NothingHeard
    /\ flash = FlashcardsMounted(0)
    /\ editor = NoEditor

\* the Play All / Stop All button
PlayAllButton ==
    /\ heard.presses < MaxPresses
    /\ Len(sortedSentences(display.sentences)) > 0
    /\ Becomes(handlePlayAll(Press(World, IF display.isPlayingAll THEN "stopAll" ELSE "playAll"),
                             heard.presses + 1))

\* the play button of a sentence that has text in the selected language
PlaySentenceButton ==
    /\ heard.presses < MaxPresses
    /\ \E i \in 1..Len(display.sentences) :
          /\ hasText(display.sentences[i], display.selectedLanguage)
          /\ Becomes(handlePlaySentence(
                 Press(World, IF display.playingSentenceId = display.sentences[i].id
                              THEN "stop" ELSE "play"),
                 display.sentences[i]))

\* the language select
LanguageSelect ==
    /\ heard.presses < MaxPresses
    /\ \E language \in Languages \ {display.selectedLanguage} :
          Becomes(selectLanguage(Press(World, "language"), language))

\* the browser loads its voices
VoicesChanged ==
    /\ speech.supported
    /\ ~speech.voices
    /\ Becomes(onvoiceschanged(World))

\* the utterance being spoken ends, or fails
UtteranceEnds ==
    /\ speech.utterances # <<>>
    /\ Becomes(onEnd([World EXCEPT !.s.utterances = Tail(@)], Head(speech.utterances).onEnd))

\* the end / error event of a cancelled utterance is delivered
CancelledUtteranceEnds ==
    /\ speech.events # <<>>
    /\ Becomes(onEnd([World EXCEPT !.s.events = Tail(@)], Head(speech.events)))

\* the 300 ms have passed
TimeoutFires ==
    /\ display.timeoutRef.set
    /\ Becomes(onTimeout(World))

PlaybackNext ==
    \/ PlayAllButton
    \/ PlaySentenceButton
    \/ LanguageSelect
    \/ VoicesChanged
    \/ UtteranceEnds
    \/ CancelledUtteranceEnds
    \/ TimeoutFires

PlaybackSpec == PlaybackInit /\ [][PlaybackNext]_vars

\* every event the browser owes is delivered in the end
PlaybackFairness ==
    /\ WF_vars(VoicesChanged)
    /\ WF_vars(UtteranceEnds)
    /\ WF_vars(CancelledUtteranceEnds)
    /\ WF_vars(TimeoutFires)

PlaybackLiveSpec == PlaybackSpec /\ PlaybackFairness

(***************************************************************************)
(* The browser: a mounted VocabularyFlashcards and the user.               *)
(***************************************************************************)
Shows(f) ==
    /\ flash' = f
    /\ UNCHANGED serverVars
    /\ UNCHANGED <<display, speech, heard, editor>>

\* the first render marks the first word seen, if the server takes it
FlashcardsInit ==
    /\ ServerInit
    /\ display = DisplayMounted(<<>>)
    /\ speech = SpeechReady(FALSE, FALSE)
    /\ heard = NothingHeard
    /\ editor = NoEditor
    /\ \E n \in 1..MaxWords, saved \in BOOLEAN :
          flash = (IF saved THEN [FlashcardsMounted(n) EXCEPT !.progress[1].seen = TRUE]
                   ELSE FlashcardsMounted(n))

Navigable == flash.mode \in {"learn", "practice"}

NextButton ==
    /\ Navigable
    /\ flash.currentIndex # flash.words - 1
    /\ \E saved \in BOOLEAN : Shows(rendered(flash, handleNext(flash), saved))

PreviousButton ==
    /\ Navigable
    /\ flash.currentIndex # 0
    /\ \E saved \in BOOLEAN : Shows(rendered(flash, handlePrevious(flash), saved))

\* the card, or the Show / Hide Answer button
FlipCard ==
    /\ flash.mode = "practice"
    /\ Shows(rendered(flash, handleFlip(flash), FALSE))

\* Correct / Incorrect on the back of the card
PracticeAnswerButton ==
    /\ flash.mode = "practice"
    /\ AnswersCounted(flash.progress, flash.words) < MaxAnswers
    /\ \E correct \in BOOLEAN, answerSaved \in BOOLEAN, saved \in BOOLEAN :
          Shows(rendered(flash, practiceAnswer(flash, correct, answerSaved), saved))

ModeButton ==
    \E mode \in Modes, saved \in BOOLEAN : Shows(rendered(flash, selectMode(flash, mode), saved))

\* a radio button of the test
TestAnswerChosen ==
    /\ flash.mode = "test" /\ ~flash.testSubmitted /\ flash.testOptions
    /\ \E wordId \in 1..flash.words :
       \E answer \in OptionsShown(flash, wordId) :
          Shows(rendered(flash, handleTestAnswer(flash, wordId, answer), FALSE))

SubmitTest ==
    /\ flash.mode = "test" /\ ~flash.testSubmitted
    /\ \A i \in 1..flash.words : flash.testAnswers[i] # 0
    /\ Shows(rendered(flash, handleTestSubmit(flash), FALSE))

Retake ==
    /\ flash.mode = "test" /\ flash.testSubmitted
    /\ Shows(rendered(flash, handleTestReset(flash), FALSE))

FlashcardsNext ==
    \/ NextButton
    \/ PreviousButton
    \/ FlipCard
    \/ PracticeAnswerButton
    \/ ModeButton
    \/ TestAnswerChosen
    \/ SubmitTest
    \/ Retake

FlashcardsSpec == FlashcardsInit /\ [][FlashcardsNext]_vars

(***************************************************************************)
(* The browser: a mounted admin editor, the admin and the server actions.  *)
(***************************************************************************)
Edits(e, name) ==
    /\ editor' = Step(editor, e, name)
    /\ UNCHANGED serverVars
    /\ UNCHANGED <<display, speech, heard, flash>>

EditorInit ==
    /\ ServerInit
    /\ display = DisplayMounted(<<>>)
    /\ speech = SpeechReady(FALSE, FALSE)
    /\ heard = NothingHeard
    /\ flash = FlashcardsMounted(0)
    /\ \E kind \in {"vocabulary", "unit"}, tracked \in BOOLEAN, rows \in InitialRows :
          editor = EditorMounted(kind, tracked, rows)

CanPress == editor.ops < MaxOps

RowsShown == {editor.rows[i] : i \in 1..Len(editor.rows)}

EditButton ==
    /\ CanPress
    /\ \E row \in RowsShown :
          row.id # editor.editingId /\ Edits(handleEdit(editor, row), "press")

CancelButton ==
    /\ CanPress
    /\ editor.isCreating \/ editor.editingId # 0
    /\ ~isPending(editor)
    /\ Edits(handleCancel(editor), "press")

SaveButton ==
    /\ CanPress
    /\ \E row \in RowsShown : row.id = editor.editingId
    /\ ~isPending(editor)
    /\ Edits(handleSave(editor, editor.editingId), "press")

AddButton ==
    /\ CanPress
    /\ ~editor.isCreating
    /\ Edits([editor EXCEPT !.isCreating = TRUE], "press")

\* an input of the create form
TypeNew ==
    /\ CanPress
    /\ editor.isCreating
    /\ \E text \in Typed, english \in Typed, order \in TypedOrders :
          /\ editor.kind = "unit" => english = <<>>
          /\ Fields(text, english, order) # editor.newItem
          /\ Edits([editor EXCEPT !.newItem = Fields(text, english, order)], "press")

\* an input of the row being edited
TypeEdit ==
    /\ CanPress
    /\ editor.editData # <<>>
    /\ \E row \in RowsShown : row.id = editor.editingId
    /\ \E text \in Typed, order \in TypedOrders :
          /\ [editor.editData[1] EXCEPT !.text = text, !.order = order] # editor.editData[1]
          /\ Edits([editor EXCEPT !.editData =
                       <<[editor.editData[1] EXCEPT !.text = text, !.order = order]>>],
                   "press")

CreateButton ==
    /\ CanPress
    /\ editor.isCreating
    /\ ~isPending(editor) /\ ~FormIncomplete(editor)
    /\ Edits(handleCreate(editor), "press")

DeleteButton ==
    /\ CanPress
    /\ ~isPending(editor)
    /\ \E row \in RowsShown, confirmed \in BOOLEAN :
          row.id # editor.editingId /\ Edits(handleDelete(editor, row.id, confirmed), "press")

\* the server action has done its work
ServerActionResolves ==
    \E i \in 1..Len(editor.inFlight) :
        Edits(resolved(Settled(editor, i), editor.inFlight[i]), "resolved")

\* the server action throws
ServerActionThrows ==
    \E i \in 1..Len(editor.inFlight) :
        Edits(thrown(Settled(editor, i), editor.inFlight[i]), "thrown")

EditorNext ==
    \/ EditButton
    \/ CancelButton
    \/ SaveButton
    \/ AddButton
    \/ TypeNew
    \/ TypeEdit
    \/ CreateButton
    \/ DeleteButton
    \/ ServerActionResolves
    \/ ServerActionThrows

EditorSpec == EditorInit /\ [][EditorNext]_vars


(***************************************************************************)
(* What the claims speak of.                                               *)
(***************************************************************************)
Extraction == served \in {"vocabulary", "conversation"}

Success == resp.status = 200 /\ "success" \in resp.keys

\* the entries of the request's existing list (none when it holds no array)
ExistingList == IF req.existing.k = "array" THEN req.existing.entries ELSE <<>>

\* the array the model's reply parses to
ReplyArray == ParseReply(env.upstream.content).value

\* lowercase(trim(text)), as the claims write the comparison key
ClaimNormal(text) == toLowerCase(trim(text))

ClaimWordKey(arabic, english) == ClaimNormal(arabic) \o <<"|">> \o ClaimNormal(english)

\* a is b with some elements removed, the others in b's order
RECURSIVE IsSubsequence(_, _)
IsSubsequence(a, b) ==
    IF a = <<>> THEN TRUE
    ELSE IF b = <<>> THEN FALSE
    ELSE IF Head(a) = Head(b) THEN IsSubsequence(Tail(a), Tail(b))
    ELSE IsSubsequence(a, Tail(b))

MatchesExistingWord(pair) ==
    \E j \in 1..Len(ExistingList) :
        /\ ExistingList[j].arabic.t = "str"
        /\ ExistingList[j].english.t = "str"
        /\ ClaimWordKey(pair.arabic, pair.english.s)
             = ClaimWordKey(ExistingList[j].arabic.s, ExistingList[j].english.s)

MatchesExistingSentence(sentence) ==
    \E j \in 1..Len(ExistingList) :
        /\ ExistingList[j].arabic.t = "str"
        /\ ClaimNormal(sentence.arabic) = ClaimNormal(ExistingList[j].arabic.s)

\* C1: in every success response of the vocabulary handler, no pair of
\* wordPairs has the key lowercase(trim(arabic))|lowercase(trim(english)) of an
\* entry of existingWords, and wordPairs keeps the order of the reply.
C1_NoExistingWordKept ==
    (served = "vocabulary" /\ Success) =>
        /\ \A i \in 1..Len(resp.items) : ~MatchesExistingWord(resp.items[i])
        /\ IsSubsequence(resp.items, ValidatePairs(ReplyArray))

\* a pair was removed as a duplicate and another one was kept
C1_Witness ==
    /\ served = "vocabulary" /\ Success
    /\ Len(ExistingList) > 0
    /\ Len(resp.items) > 0
    /\ Len(resp.items) < Len(ValidatePairs(ReplyArray))

\* C2: in every success response of the conversation handler, duplicates is
\* the validated sentences whose lowercase(trim(arabic)) is that of an existing
\* sentence and sentences is the other validated sentences, each in reply order.
C2_SentencesPartitioned ==
    (served = "conversation" /\ Success) =>
        LET validated == ValidateSentences(ReplyArray)
        IN /\ resp.duplicates = SelectSeq(validated, MatchesExistingSentence)
           /\ resp.items = SelectSeq(validated, LAMBDA x : ~MatchesExistingSentence(x))

\* a sentence is reported as a duplicate although its English differs from the
\* existing entry's, and another sentence is kept
C2_Witness ==
    /\ served = "conversation" /\ Success
    /\ Len(resp.items) > 0
    /\ \E i \in 1..Len(resp.duplicates) :
          \A j \in 1..Len(ExistingList) :
              resp.duplicates[i].english # ExistingList[j].english

\* C3: in every success response of the vocabulary handler, the validated
\* pairs that match an existing word are listed in duplicates, so wordPairs and
\* duplicates together account for every validated pair.
C3_DuplicatesListed ==
    (served = "vocabulary" /\ Success) =>
        /\ resp.duplicates = SelectSeq(ValidatePairs(ReplyArray), MatchesExistingWord)
        /\ Len(resp.items) + Len(resp.duplicates) = Len(ValidatePairs(ReplyArray))


\* a field that holds some text: a string with a character that is no white
\* space (a number is rendered by String())
HasText(v) ==
    \/ v.t = "str" /\ \E i \in 1..Len(v.s) : ~IsSpace(v.s[i])
    \/ v.t = "num" /\ Truthy(v)

IsTrimmed(text) == text # <<>> /\ ~IsSpace(text[1]) /\ ~IsSpace(text[Len(text)])

\* the reply is an array and the request names no existing records
PlainReply ==
    /\ Extraction /\ sent.made /\ env.upstream.ok
    /\ req.existing.k = "absent"
    /\ ParseReply(env.upstream.content).ok

\* C4: every item of a success response has a trimmed, non-empty arabic (and
\* english, for vocabulary); reply items whose arabic (or english, for
\* vocabulary) is missing, empty or blank are dropped without failing the
\* request; a conversation item with no English is returned without an
\* english value.
C4_ReplyNormalized ==
    /\ (Extraction /\ Success) =>
          \A i \in 1..Len(resp.items) :
              /\ IsTrimmed(resp.items[i].arabic)
              /\ served = "vocabulary" =>
                    resp.items[i].english.t = "str" /\ IsTrimmed(resp.items[i].english.s)
    /\ (PlainReply /\ served = "vocabulary") =>
          /\ Success
          /\ Len(resp.items)
               = Len(SelectSeq(ReplyArray, LAMBDA x : HasText(x.arabic) /\ HasText(x.english)))
    /\ (PlainReply /\ served = "conversation") =>
          LET kept == SelectSeq(ReplyArray, LAMBDA x : HasText(x.arabic))
          IN /\ Success
             /\ Len(resp.items) = Len(kept)
             /\ \A i \in 1..Len(kept) :
                   ~HasText(kept[i].english) => resp.items[i].english = Undef

\* C5: when requireAdmin fails, the response is 401 {error: "Unauthorized"}
\* and the handler made no other call: no form read, no query, no API call.
C5_UnauthorizedDoesNothing ==
    (Extraction /\ ~env.admin) =>
        /\ resp.status = 401
        /\ resp.keys = {"error"}
        /\ resp.error = Message("Unauthorized")
        /\ effects = <<"requireAdmin">>
        /\ ~sent.made

\* an otherwise complete request of a caller who is no admin
C5_Witness ==
    /\ served = "conversation" /\ ~env.admin
    /\ req.file.present /\ startsWith(req.file.type, ImagePrefix)
    /\ env.config.present /\ env.config.apiKey # ""
    /\ resp.status = 401

LearnerPages == {"BooksPage", "BookDetailPage", "UnitDetailPage"}
AdminPages == {"AdminLessonsPage", "AdminVocabularyPage"}

\* C6: a learner page without a session redirects to /login and an admin page
\* of a user who is no admin redirects to /, and neither issues a catalog query.
C6_GateBeforeCatalog ==
    /\ (served \in LearnerPages /\ ~visit.session) =>
          outcome = "redirect /login" /\ queries = <<>>
    /\ (served \in AdminPages /\ ~visit.admin) =>
          outcome = "redirect /" /\ queries = <<>>

\* the vocabulary admin page, asked for an existing vocabulary lesson by a
\* signed-in user who is no admin
C6_Witness ==
    /\ served = "AdminVocabularyPage"
    /\ visit.session /\ ~visit.admin
    /\ \E l \in visit.catalog.lessons : l.id = parseInt(visit.id).n /\ l.type = "vocabulary"
    /\ outcome = "redirect /"

\* a lesson id that is a number: digits, white space around them allowed
IsNumeric(text) ==
    trim(text) # <<>> /\ \A i \in 1..Len(trim(text)) : IsDigit(trim(text)[i])

NoRejection == [status |-> 0, text |-> ""]
Rejection(status, text) == [status |-> status, text |-> text]

\* the first check of the claimed order that the request fails
ClaimedRejection(numeric(_)) ==
    IF ~req.file.present THEN Rejection(400, "No image file provided")
    ELSE IF served = "conversation" /\ (req.lessonId.t # "str" \/ req.lessonId.s = <<>>)
    THEN Rejection(400, "Lesson ID is required")
    ELSE IF served = "conversation" /\ ~numeric(req.lessonId.s)
    THEN Rejection(400, "Invalid lesson ID")
    ELSE IF ~startsWith(req.file.type, ImagePrefix)
    THEN Rejection(400, "File must be an image")
    ELSE IF served = "conversation" /\ FindLesson(env.db, parseInt(req.lessonId.s).n) = {}
    THEN Rejection(404, "Lesson not found")
    ELSE IF ~env.config.present \/ env.config.apiKey = ""
    THEN Rejection(500, "OpenRouter API key not configured")
    ELSE NoRejection

RejectedAsClaimed(numeric(_)) ==
    (Extraction /\ env.admin /\ ClaimedRejection(numeric) # NoRejection) =>
        /\ resp.status = ClaimedRejection(numeric).status
        /\ resp.error = Message(ClaimedRejection(numeric).text)
        /\ resp.keys = {"error"}
        /\ ~sent.made
        /\ ~includes(effects, "fetch")

\* C7: a bad request is rejected before the external API is called, in the
\* order no file (400), no lessonId (400), non-numeric lessonId (400), file
\* that is no image (400), lesson not found (404), no API key (500).
C7_RejectedInOrder == RejectedAsClaimed(IsNumeric)


\* the request names a model
ModelRequested == req.model # <<>> /\ req.model[1] # ""

RequestedModel == req.model[1]

ClaimedVisionList ==
    <<"openai/gpt-4o", "openai/gpt-4o-mini", "anthropic/claude-3.5-sonnet",
      "anthropic/claude-3-opus", "google/gemini-pro-vision">>

SupportedVision ==
    {i \in 1..Len(ClaimedVisionList) :
        includes(env.config.supportedModels, ClaimedVisionList[i])}

\* the first entry of the vision list that is supported, else the default
ClaimedFallback ==
    IF SupportedVision = {} THEN "openai/gpt-4o"
    ELSE ClaimedVisionList[CHOOSE i \in SupportedVision : \A j \in SupportedVision : i <= j]

RequestedIsSupported ==
    ModelRequested /\ includes(env.config.supportedModels, RequestedModel)

\* C8 as claimed: the requested model is sent if and only if it is in
\* supportedModels, otherwise the first supported entry of the vision list,
\* else openai/gpt-4o; a requested model outside supportedModels is never sent.
C8_AsClaimed ==
    (Extraction /\ sent.made) =>
        /\ RequestedIsSupported => sent.model = RequestedModel
        /\ ~RequestedIsSupported => sent.model = ClaimedFallback
        /\ (ModelRequested /\ ~RequestedIsSupported) => sent.model # RequestedModel

\* C8 (amended): the requested model is sent if it is in supportedModels,
\* otherwise the first supported entry of the vision list, else openai/gpt-4o;
\* a requested model outside supportedModels is sent only when it is that
\* default and no entry of the vision list is supported.
C8_ModelSelected ==
    (Extraction /\ sent.made) =>
        /\ RequestedIsSupported => sent.model = RequestedModel
        /\ ~RequestedIsSupported => sent.model = ClaimedFallback
        /\ (ModelRequested /\ ~RequestedIsSupported /\ sent.model = RequestedModel) =>
              RequestedModel = "openai/gpt-4o" /\ SupportedVision = {}

\* a requested model that is not supported is replaced by a supported vision
\* model that is not the first of the list
C8_Witness ==
    /\ Extraction /\ sent.made
    /\ ModelRequested /\ ~RequestedIsSupported
    /\ sent.model = "anthropic/claude-3-opus"

\* text is s without the white space at its two ends
IsTrimOf(text, s) ==
    /\ IsTrimmed(text)
    /\ \E i \in 0..Len(s) :
          /\ i + Len(text) <= Len(s)
          /\ SubSeq(s, i + 1, i + Len(text)) = text
          /\ \A k \in 1..Len(s) : (k <= i \/ k > i + Len(text)) => IsSpace(s[k])

\* C9: a non-blank customPrompt is sent trimmed and nothing else is sent; an
\* absent, empty or blank one makes the handler send its base prompt.
C9_PromptChosen ==
    (Extraction /\ sent.made) =>
        IF HasText(req.customPrompt)
        THEN /\ sent.prompt.custom
             /\ IsTrimOf(sent.prompt.text, req.customPrompt.s)
             /\ sent.prompt.context = <<>>
        ELSE /\ ~sent.prompt.custom
             /\ sent.prompt.text = <<>>
             /\ served = "vocabulary" => sent.prompt = BasePrompt(<<>>)

\* a custom prompt with white space around it was sent without it
C9_Witness ==
    /\ Extraction /\ sent.made
    /\ req.customPrompt = Str(<<" ", "p", " ">>)
    /\ sent.prompt.text = <<"p">>

ListKeys == {"success", "wordPairs", "sentences"}

\* the message a failed API call is reported with
ClaimedUpstreamError ==
    IF env.upstream.errorBody = "json" /\ env.upstream.errorMessage # ""
    THEN Message(env.upstream.errorMessage)
    ELSE ApiErrorMessage(env.upstream.status, env.upstream.statusText)

RequestLesson == CHOOSE l \in env.db.lessons : l.id = parseInt(req.lessonId.s).n

\* the vocabulary words of the vocabulary lessons of that lesson's unit
UnitWords ==
    {w \in env.db.words :
        \E l \in env.db.lessons :
            l.id = w.lessonId /\ l.type = "vocabulary" /\ l.unitId = RequestLesson.unitId}

\* list holds the first words of UnitWords in ascending order, 100 at most
ListsFirstWords(list) ==
    /\ Len(list) = (IF Cardinality(UnitWords) > 100 THEN 100 ELSE Cardinality(UnitWords))
    /\ \A i \in 1..Len(list) : list[i] \in UnitWords
    /\ \A i \in 1..Len(list) - 1 : list[i].order <= list[i + 1].order /\ list[i] # list[i + 1]
    /\ \A w \in UnitWords :
          (\A i \in 1..Len(list) : list[i] # w) => \A i \in 1..Len(list) : list[i].order <= w.order

\* C11 as claimed: whenever the lesson's unit has a vocabulary word, the prompt
\* sent by the conversation handler carries the vocabulary context listing the
\* unit's words, the first 100 at most, in ascending order.
C11_AsClaimed ==
    (served = "conversation" /\ sent.made /\ UnitWords # {}) =>
        /\ sent.prompt.context # <<>>
        /\ ListsFirstWords(sent.prompt.context)

\* C11 (amended): the same, for the requests whose customPrompt is absent,
\* empty or blank; a non-blank customPrompt is sent without the context.
C11_ContextSent ==
    (served = "conversation" /\ sent.made /\ UnitWords # {}) =>
        IF HasText(req.customPrompt)
        THEN sent.prompt.context = <<>>
        ELSE /\ sent.prompt.context # <<>>
             /\ ListsFirstWords(sent.prompt.context)

\* a unit of more than 100 words, of which the base prompt lists the 100 of
\* smallest order
C11_Witness ==
    /\ served = "conversation" /\ sent.made
    /\ ~HasText(req.customPrompt)
    /\ Cardinality(UnitWords) > 100
    /\ Len(sent.prompt.context) = 100
    /\ sent.prompt.context[1].order < sent.prompt.context[100].order

\* the model's reply is a JSON array of objects
WellFormedReply ==
    /\ ParseReply(env.upstream.content).ok
    /\ \A i \in 1..Len(ReplyArray) : ReplyArray[i].k = "obj"

\* the existing field holds no array of entries with their texts
ExistingUnusable ==
    \/ req.existing.k \in {"unparsable", "notArray"}
    \/ \E i \in 1..Len(ExistingList) :
          ExistingList[i].arabic.t # "str" \/ ExistingList[i].english.t # "str"

\* C12: whatever the existingWords / existingSentences field holds, a
\* well-formed reply of the model gives a success response, and when the field
\* is unparsable, no array, or has an entry without arabic or english, the
\* response reports no duplicate.
C12_ExistingNeverFails ==
    (Extraction /\ sent.made /\ env.upstream.ok /\ WellFormedReply) =>
        /\ Success
        /\ ExistingUnusable => resp.duplicates = <<>>

\* the sentences that have non-blank text in the selected language
PlayableSet ==
    {x \in {display.sentences[i] : i \in 1..Len(display.sentences)} :
        HasText(IF display.selectedLanguage = "arabic" THEN x.arabic ELSE x.english)}

SentenceOf(id) ==
    CHOOSE x \in {display.sentences[i] : i \in 1..Len(display.sentences)} : x.id = id

\* the sentences speechSynthesis was asked to speak since the last press
SpokenIds == [i \in 1..Len(heard.spoken) |-> heard.spoken[i].id]

\* ids names playable sentences in ascending order, none twice and none
\* passed over
InOrderOnce(ids) ==
    /\ \A i \in 1..Len(ids) : \E x \in PlayableSet : x.id = ids[i]
    /\ \A i, j \in 1..Len(ids) :
          i < j => ids[i] # ids[j] /\ SentenceOf(ids[i]).order <= SentenceOf(ids[j]).order
    /\ \A x \in PlayableSet :
          (\A i \in 1..Len(ids) : ids[i] # x.id) =>
              \A i \in 1..Len(ids) : SentenceOf(ids[i]).order <= x.order

\* C13: after Play All is pressed, the sentences spoken are the playable
\* sentences in ascending order, each once and none passed over; a sentence
\* after the first is started by the 300 ms timer of its predecessor's end
\* callback, never by cutting an utterance off; when the run is over every
\* playable sentence has been spoken.
C13_PlayAllInOrder ==
    heard.last = "playAll" =>
        /\ InOrderOnce(SpokenIds)
        /\ \A i \in 1..Len(heard.spoken) :
              /\ heard.spoken[i].kind = "chain"
              /\ heard.spoken[i].run = heard.presses
              /\ i > 1 => ~heard.spoken[i].cut
        /\ ~display.isPlayingAll => Len(heard.spoken) = Cardinality(PlayableSet)

\* C15: after Stop All, speechSynthesis is asked to speak nothing until the
\* user presses again.
C15_StoppedStaysSilent ==
    heard.last = "stopAll" => heard.spoken = <<>>

\* C16: when Play All is pressed while the end / error callback of a cancelled
\* Play All utterance is undelivered, only the new run advances playback: a
\* pending timer belongs to the new run, and the sentences spoken are those
\* of the new run, in order from the first, each once, none cut off.
C16_OneChainActive ==
    (heard.last = "playAll" /\ heard.stale) =>
        /\ display.timeoutRef.set => display.timeoutRef.run = heard.presses
        /\ \A i \in 1..Len(heard.spoken) :
              heard.spoken[i].run = heard.presses /\ (i > 1 => ~heard.spoken[i].cut)
        /\ InOrderOnce(SpokenIds)

\* C17: while a sentence started by the user's last press of a play button
\* or of Play All is being spoken, playingSentenceId is that sentence's id.
C17_PlayingIdIsSpoken ==
    (heard.last \in {"play", "playAll"} /\ speech.utterances # <<>>) =>
        display.playingSentenceId = Head(speech.utterances).id

\* the idle state of playback
PlaybackIdle ==
    /\ ~display.isPlayingAll
    /\ display.playingSentenceId = NoSentence
    /\ display.currentPlayAllIndex = 0
    /\ display.playAllQueueRef = <<>>
    /\ ~display.shouldContinuePlayingRef

\* C14: when the browser delivers every event it owes, a Play All that the
\* user leaves alone comes back to the idle state: isPlayingAll false,
\* playingSentenceId null, currentPlayAllIndex 0, queue empty, flag false.
C14_PlayAllTerminates ==
    (heard.last = "playAll" /\ display.isPlayingAll) ~> (PlaybackIdle \/ heard.last # "playAll")


(***************************************************************************)
(* C18: with a non-empty word list, whatever the user did (Next, Previous, *)
(* flips, practice answers, mode switches, test answers, Submit, Retake),  *)
(* currentIndex is between 0 and words.length - 1; Next on the last word   *)
(* and Previous on the first change nothing; a Next or Previous that moves *)
(* moves by one and leaves the card unflipped.                             *)
(***************************************************************************)
C18_IndexInBounds ==
    flash.words > 0 =>
        /\ 0 <= flash.currentIndex /\ flash.currentIndex <= flash.words - 1
        /\ IF flash.currentIndex = flash.words - 1
           THEN handleNext(flash) = flash
           ELSE /\ handleNext(flash).currentIndex = flash.currentIndex + 1
                /\ ~handleNext(flash).isFlipped
        /\ IF flash.currentIndex = 0
           THEN handlePrevious(flash) = flash
           ELSE /\ handlePrevious(flash).currentIndex = flash.currentIndex - 1
                /\ ~handlePrevious(flash).isFlipped

\* C18: the last of several words, reached in practice mode, where an answer
\* was given (its handleNext found no next word) and the card is flipped again
C18_Witness ==
    /\ flash.words = MaxWords
    /\ flash.mode = "practice"
    /\ flash.currentIndex = flash.words - 1
    /\ flash.progress[flash.words].correctCount + flash.progress[flash.words].incorrectCount > 0
    /\ flash.isFlipped

(***************************************************************************)
(* C19: in VocabularyManagement and UnitManagement a server action that    *)
(* throws changes nothing of what the admin sees: the list is the same,    *)
(* and editingId, editData, isCreating and the create form keep their      *)
(* values; the list changes only in the step in which a server action has  *)
(* resolved.                                                               *)
(***************************************************************************)
C19_FailureChangesNothing ==
    /\ editor.last = "thrown" => Visible(editor) = editor.previous
    /\ editor.rows # editor.previous.rows => editor.last = "resolved"

\* C19: the update of a row has thrown while its editor is open with a text
\* typed over the row's
C19_Witness ==
    /\ editor.last = "thrown"
    /\ editor.editData # <<>>
    /\ \E i \in 1..Len(editor.rows) :
          /\ editor.rows[i].id = editor.editingId
          /\ editor.rows[i].text # editor.editData[1].text

====
